---- MODULE Spec2Model ----
(***************************************************************************)
(* A model of the dfttopif parsers: VaspParser (parsers/vasp.py) and       *)
(* Wien2kParser (parsers/wien2k.py).                                       *)
(*                                                                         *)
(* A calculation directory is a value `dir`; every extractor is an action  *)
(* that reads `dir` and leaves its outcome in `res`.  Text files are       *)
(* sequences of lines, a line is the sequence of its whitespace-separated  *)
(* words (what str.split() returns), and `marker in line` is the           *)
(* occurrence of the marker's words as consecutive words of the line.      *)
(* Energies are integers in units of 1e-4 eV, densities of states in       *)
(* units of 1e-3 states.                                                   *)
(***************************************************************************)
EXTENDS Integers, Sequences, FiniteSets, TLC

VARIABLES dir, op, res, opened, atoms

vars == <<dir, op, res, opened, atoms>>

(***************************************************************************)
(* Bounds of the model.                                                    *)
(***************************************************************************)
MaxLines == 3

(***************************************************************************)
(* Outcomes of a call.                                                     *)
(***************************************************************************)
ReturnNone == [kind |-> "None"]

Raise(e) == [kind |-> "raise", exc |-> e]

ReturnBool(b) == [kind |-> "bool", val |-> b]

(***************************************************************************)
(* Text helpers.                                                           *)
(***************************************************************************)
\* `marker in line`
Contains(line, marker) ==
    \E i \in 1..(Len(line) - Len(marker) + 1) :
        SubSeq(line, i, i + Len(marker) - 1) = marker

\* `marker in open(path).read()` for a marker without a line break
FileContains(lines, marker) ==
    \E k \in DOMAIN lines : Contains(lines[k], marker)

\* line.split()[i], Python's 0-based index
Word(line, i) == line[i + 1]

NumRange == -20..20

IsNumeral(tok) == \E n \in NumRange : ToString(n) = tok

\* float(tok) for a numeral
Float(tok) == CHOOSE n \in NumRange : ToString(n) = tok

(***************************************************************************)
(* The directory.                                                          *)
(***************************************************************************)
NoFile == [kind |-> "absent"]

SubDir == [kind |-> "dir"]

TextFile(ls) == [kind |-> "file", lines |-> ls]

\* os.path.isfile(os.path.join(directory, name))
IsFile(entry) == entry.kind = "file"

OUTCAR == <<"OUTCAR">>

EIGENVAL == <<"EIGENVAL">>

DOSCAR == <<"DOSCAR">>

(***************************************************************************)
(* Markers and lines of an OUTCAR.                                         *)
(***************************************************************************)
IsifMarker(v) == <<"ISIF", "=", v>>

IsifLine(v) == IsifMarker(v) \o <<"stress", "and", "relaxation">>

ExternalPressure == <<"external", "pressure">>

PressureLine(p) == ExternalPressure \o <<"=", p, "kB", "Pullay", "stress", "=", "0", "kB">>

InKB == <<"in", "kB">>

StressLine(w) == InKB \o w

NoiseLine == <<"POTCAR:", "PAW_PBE", "Si", "05Jan2001">>

StressWords == { <<"1", "2", "3", "4", "5", "6">>, <<"-1", "-2", "-3", "-4", "-5", "-6">> }

PressureWords == {"11", "-12"}

OutcarAlphabet ==
    {IsifLine(v) : v \in {"0", "1", "2"}}
        \cup {PressureLine(p) : p \in PressureWords}
        \cup {StressLine(w) : w \in StressWords}
        \cup {NoiseLine}

SeqsUpTo(S, n) == UNION {[1..k -> S] : k \in 0..n}

OutcarTexts == SeqsUpTo(OutcarAlphabet, MaxLines)

(***************************************************************************)
(* VaspParser.get_pressure                                                 *)
(***************************************************************************)
pressure_dict == [kB |-> "kbar"]

PressureProperty(line) ==
    IF Len(line) < 5 THEN Raise("IndexError")
    ELSE IF ~IsNumeral(Word(line, 3)) THEN Raise("ValueError")
    ELSE IF Word(line, 4) \notin DOMAIN pressure_dict THEN Raise("KeyError")
    ELSE [kind |-> "Property", scalars |-> <<Float(Word(line, 3))>>,
          units |-> pressure_dict[Word(line, 4)]]

\* faulty variant: the scan in file order, returning the first hit
RECURSIVE ScanPressureForward(_, _)
ScanPressureForward(lines, k) ==
    IF k > Len(lines) THEN ReturnNone
    ELSE IF Contains(lines[k], ExternalPressure) THEN PressureProperty(lines[k])
    ELSE ScanPressureForward(lines, k + 1)

\* for line in reversed(readlines()): the first hit returns; falling out of
\* the loop ends the function, which returns None
RECURSIVE ScanPressureReversed(_, _)
ScanPressureReversed(lines, k) ==
    IF k < 1 THEN ReturnNone
    ELSE IF Contains(lines[k], ExternalPressure) THEN PressureProperty(lines[k])
    ELSE ScanPressureReversed(lines, k - 1)

ScanPressureFirst(lines) == ScanPressureForward(lines, 1)

ScanPressure(lines) == ScanPressureReversed(lines, Len(lines))

get_pressure(d) ==
    IF ~IsFile(d.outcar) THEN Raise("IOError")
    ELSE IF FileContains(d.outcar.lines, IsifMarker("0")) THEN ReturnNone
    ELSE ScanPressure(d.outcar.lines)

(***************************************************************************)
(* VaspParser.get_stresses                                                 *)
(***************************************************************************)
Unbound == [bound |-> FALSE]

\* XX = float(words[2]); YY = ...; ZX = float(words[7])
StressLocals(line) ==
    [bound |-> TRUE,
     XX |-> Float(Word(line, 2)), YY |-> Float(Word(line, 3)), ZZ |-> Float(Word(line, 4)),
     XY |-> Float(Word(line, 5)), YZ |-> Float(Word(line, 6)), ZX |-> Float(Word(line, 7))]

\* the loop runs over every line, each hit overwriting the six locals
RECURSIVE ScanStresses(_, _, _)
ScanStresses(lines, k, locals) ==
    IF k > Len(lines) THEN locals
    ELSE IF Contains(lines[k], InKB) THEN ScanStresses(lines, k + 1, StressLocals(lines[k]))
    ELSE ScanStresses(lines, k + 1, locals)

\* faulty variant: YZ and XY exchanged in the second row
StressMatrixSwapped(v) ==
    <<<<v.XX, v.XY, v.ZX>>, <<v.YZ, v.YY, v.XY>>, <<v.ZX, v.YZ, v.ZZ>>>>

StressMatrix(v) ==
    <<<<v.XX, v.XY, v.ZX>>, <<v.XY, v.YY, v.YZ>>, <<v.ZX, v.YZ, v.ZZ>>>>

StressProperty(locals) ==
    IF ~locals.bound THEN Raise("UnboundLocalError")
    ELSE [kind |-> "Property", matrices |-> <<StressMatrix(locals)>>, units |-> "kbar"]

\* faulty variant: the ISIF = 1 test left out
get_stresses_isif0_only(d) ==
    IF ~IsFile(d.outcar) THEN Raise("IOError")
    ELSE IF FileContains(d.outcar.lines, IsifMarker("0")) THEN ReturnNone
    ELSE StressProperty(ScanStresses(d.outcar.lines, 1, Unbound))

get_stresses(d) ==
    IF ~IsFile(d.outcar) THEN Raise("IOError")
    ELSE IF FileContains(d.outcar.lines, IsifMarker("0")) THEN ReturnNone
    ELSE IF FileContains(d.outcar.lines, IsifMarker("1")) THEN ReturnNone
    ELSE StressProperty(ScanStresses(d.outcar.lines, 1, Unbound))

(***************************************************************************)
(* Actions: one per extractor call.                                        *)
(***************************************************************************)
GetPressure ==
    /\ op' = "get_pressure"
    /\ res' = get_pressure(dir)
    /\ opened' = {OUTCAR}
    /\ UNCHANGED <<dir, atoms>>

GetStresses ==
    /\ op' = "get_stresses"
    /\ res' = get_stresses(dir)
    /\ opened' = {OUTCAR}
    /\ UNCHANGED <<dir, atoms>>

(***************************************************************************)
(* Directories whose OUTCAR varies; no other file is present.              *)
(***************************************************************************)
Directory(o, e, d, rest) ==
    [present |-> TRUE, outcar |-> o, eigenval |-> e, doscar |-> d, others |-> rest]

MissingDirectory ==
    [present |-> FALSE, outcar |-> NoFile, eigenval |-> NoFile, doscar |-> NoFile,
     others |-> <<>>]

OutcarDirs ==
    {Directory(TextFile(t), NoFile, NoFile, <<>>) : t \in OutcarTexts}
        \cup {Directory(NoFile, NoFile, NoFile, <<>>),
              Directory(SubDir, NoFile, NoFile, <<>>),
              MissingDirectory}

\* a parser on which no call has stored self.atoms
NoAtoms == [kind |-> "unset"]

Fresh ==
    /\ op = "init"
    /\ res = ReturnNone
    /\ opened = {}
    /\ atoms = NoAtoms

InitOutcar == dir \in OutcarDirs /\ Fresh

NextOutcar == GetPressure \/ GetStresses

SpecOutcar == InitOutcar /\ [][NextOutcar]_vars

(***************************************************************************)
(* VaspParser._get_bandgap_from_bands and _get_bandgap_eigenval            *)
(***************************************************************************)
MaxKpoints == 2

MaxBands == 3

\* seq[i] is defined in Python for -len <= i < len
PyIndexOK(seq, i) == -Len(seq) <= i /\ i < Len(seq)

PyIndex(seq, i) == IF i >= 0 THEN seq[i + 1] ELSE seq[Len(seq) + i + 1]

SeqMax(seq) == CHOOSE x \in {seq[k] : k \in DOMAIN seq} : \A k \in DOMAIN seq : seq[k] <= x

SeqMin(seq) == CHOOSE x \in {seq[k] : k \in DOMAIN seq} : \A k \in DOMAIN seq : x <= seq[k]

Max2(a, b) == IF a >= b THEN a ELSE b

\* zip(*rows): as many tuples as the shortest row has items
Zip(rows) ==
    IF rows = <<>> THEN <<>>
    ELSE LET n == SeqMin([k \in DOMAIN rows |-> Len(rows[k])])
         IN  [c \in 1..n |-> [r \in DOMAIN rows |-> rows[r][c]]]

\* int(nelec / 2.0) of the caller's nelec, for nelec >= 0
HalfElectrons(nelec) == nelec \div 2

BandsIndexOK(energies, n) ==
    \A k \in DOMAIN energies : PyIndexOK(energies[k], n - 1) /\ PyIndexOK(energies[k], n)

\* faulty variant: the difference without max(..., 0.0)
bandgap_from_bands_unclamped(energies, n) ==
    LET valence == [k \in DOMAIN energies |-> PyIndex(energies[k], n - 1)]
        conduction == [k \in DOMAIN energies |-> PyIndex(energies[k], n)]
    IN  SeqMin(conduction) - SeqMax(valence)

\* energies: one tuple of band energies per k-point; n = int(nelec)
bandgap_from_bands(energies, n) ==
    LET valence == [k \in DOMAIN energies |-> PyIndex(energies[k], n - 1)]
        conduction == [k \in DOMAIN energies |-> PyIndex(energies[k], n)]
    IN  Max2(SeqMin(conduction) - SeqMax(valence), 0)

NelectMarker == <<"NELECT", "=">>

NelectLine(n) == NelectMarker \o <<ToString(n), "total", "number", "of", "electrons">>

\* OutcarParser().parse(lines), kept to the matches holding "number of electrons"
NumberOfElectrons(lines) ==
    LET hits == {k \in DOMAIN lines : Contains(lines[k], NelectMarker)}
    IN  [found |-> hits # {},
         value |-> IF hits = {} THEN 0
                   ELSE Float(Word(lines[CHOOSE k \in hits : \A j \in hits : k <= j], 2))]

\* blocks: the "energies" of every k-point block EigenvalParser yields, each a
\* list of rows (one per band) of per-spin energies
SpinEnergies(blocks) == Zip([k \in DOMAIN blocks |-> Zip(blocks[k])])

Value(x) == [kind |-> "value", val |-> x]

GapsMin(gaps) == SeqMin(gaps)

bandgap_eigenval(blocks, nelec) ==
    LET spin_energies == SpinEnergies(blocks)
        n == HalfElectrons(nelec)
    IN  IF \E s \in DOMAIN spin_energies : ~BandsIndexOK(spin_energies[s], n)
        THEN Raise("IndexError")
        ELSE IF spin_energies = <<>> THEN Raise("ValueError")
        ELSE Value(GapsMin([s \in DOMAIN spin_energies |->
                                bandgap_from_bands(spin_energies[s], n)]))

(***************************************************************************)
(* VaspParser._get_bandgap_doscar                                          *)
(***************************************************************************)
MaxRows == 5

\* dens > 1e-3, in units of 1e-3
DosThreshold == 1

\* dens = sum of the first int(len(l)/2) columns after the energy
RECURSIVE SumFirst(_, _)
SumFirst(cols, n) == IF n = 0 THEN 0 ELSE SumFirst(cols, n - 1) + cols[n]

Density(row) == SumFirst(Tail(row), (Len(row) - 1) \div 2)

\* faulty variant: one step instead of two
GapOrZeroOneStep(top, bot, step_size) ==
    IF top - bot < step_size THEN Value(0) ELSE Value(top - bot)

GapOrZero(top, bot, step_size) ==
    IF top - bot < step_size * 2 THEN Value(0) ELSE Value(top - bot)

\* the while loop, at row k (1-based), with bot as left by the rows before
RECURSIVE DosScan(_, _, _, _, _)
DosScan(rows, k, efermi, step_size, bot) ==
    IF k > Len(rows) THEN Raise("IndexError")
    ELSE LET e == rows[k][1]
             dens == Density(rows[k])
         IN  IF e < efermi /\ dens > DosThreshold
             THEN DosScan(rows, k + 1, efermi, step_size, [bound |-> TRUE, e |-> e])
             ELSE IF e > efermi /\ dens > DosThreshold
             THEN IF ~bot.bound THEN Raise("UnboundLocalError")
                  ELSE GapOrZero(e, bot.e, step_size)
             ELSE DosScan(rows, k + 1, efermi, step_size, bot)

bandgap_doscar(doscar) ==
    IF Len(doscar.rows) < 2 THEN Raise("IndexError")
    ELSE DosScan(doscar.rows, 3, doscar.efermi,
                 doscar.rows[2][1] - doscar.rows[1][1], Unbound)

(***************************************************************************)
(* VaspParser.get_band_gap                                                 *)
(***************************************************************************)
\* round(bandgap, 3) of a gap >= 0 held in units of 1e-4 eV
Round3(x) == ((x + 5) \div 10) * 10

\* faulty variant: DOSCAR tested before OUTCAR and EIGENVAL
band_gap_path_doscar_first(d) ==
    IF IsFile(d.doscar) THEN "doscar"
    ELSE IF IsFile(d.outcar) /\ IsFile(d.eigenval) THEN "eigenval"
    ELSE "none"

band_gap_path(d) ==
    IF IsFile(d.outcar) /\ IsFile(d.eigenval) THEN "eigenval"
    ELSE IF IsFile(d.doscar) THEN "doscar"
    ELSE "none"

BandGapProperty(r) ==
    IF r.kind = "value"
    THEN [kind |-> "Property", bandgap |-> r.val, scalars |-> <<Round3(r.val)>>, units |-> "eV"]
    ELSE r

get_band_gap(d) ==
    LET path == band_gap_path(d)
    IN  IF path = "eigenval"
        THEN LET nelec == NumberOfElectrons(d.outcar.lines)
             IN  IF ~nelec.found
                 THEN [res |-> Raise("StopIteration"), opened |-> {OUTCAR}]
                 ELSE [res |-> BandGapProperty(bandgap_eigenval(d.eigenval.blocks, nelec.value)),
                       opened |-> {OUTCAR, EIGENVAL}]
        ELSE IF path = "doscar"
        THEN [res |-> BandGapProperty(bandgap_doscar(d.doscar)), opened |-> {DOSCAR}]
        ELSE [res |-> ReturnNone, opened |-> {}]

GetBandGap ==
    /\ op' = "get_band_gap"
    /\ res' = get_band_gap(dir).res
    /\ opened' = get_band_gap(dir).opened
    /\ UNCHANGED <<dir, atoms>>

(***************************************************************************)
(* Directories for get_band_gap: OUTCAR, EIGENVAL and DOSCAR vary.         *)
(***************************************************************************)
Energies == {0, 13}

Spins == {1, 2}

ElectronCounts == 0..(2 * MaxBands + 1)

\* one k-point block: MaxBands rows of ns energies, ascending in each spin channel
Blocks(ns) ==
    {b \in [1..MaxBands -> [1..ns -> Energies]] :
        \A i \in 1..(MaxBands - 1) : \A s \in 1..ns : b[i][s] <= b[i + 1][s]}

EigenvalFile(blocks) == [kind |-> "file", blocks |-> blocks]

EigenvalFiles ==
    UNION {{EigenvalFile(bs) : bs \in SeqsUpTo(Blocks(ns), MaxKpoints)} : ns \in Spins}

NelectOutcars ==
    {TextFile(<<>>), TextFile(<<NoiseLine>>)}
        \cup {TextFile(<<NelectLine(n)>>) : n \in ElectronCounts}
        \cup {TextFile(<<NoiseLine, NelectLine(2), NelectLine(4)>>)}

DosSteps == {10, 20}

Densities == {0, 1, 2}

\* rows "energy dos integrated-dos" on the grid 0, step, 2*step, ...; the Fermi
\* energies tried lie on the grid points and half-way between them
DoscarFile(efermi, step, dos) ==
    [kind |-> "file", efermi |-> efermi,
     rows |-> [k \in DOMAIN dos |-> <<(k - 1) * step, dos[k], SumFirst(dos, k)>>]]

SampleDoscar == DoscarFile(25, 10, <<0, 0, 2, 0, 2>>)

InitBandGap ==
    /\ \/ \E o \in NelectOutcars \cup {NoFile, SubDir} :
          \E e \in EigenvalFiles \cup {NoFile} :
          \E d \in {NoFile, SampleDoscar} :
              dir = Directory(o, e, d, <<>>)
       \/ \E o \in {NoFile, TextFile(<<NelectLine(2)>>)} :
          \E h \in 0..(2 * MaxRows) : \E step \in DosSteps :
          \E dos \in SeqsUpTo(Densities, MaxRows) :
              dir = Directory(o, NoFile, DoscarFile((h * step) \div 2, step, dos), <<>>)
       \/ dir = MissingDirectory
    /\ Fresh

NextBandGap == GetBandGap

SpecBandGap == InitBandGap /\ [][NextBandGap]_vars

(***************************************************************************)
(* Applicability tests: VaspParser.test_if_from, Wien2kParser.test_if_from *)
(***************************************************************************)
MaxFiles == 2

MaxScfLines == 2

\* A file name is the sequence of its dot-separated parts: "case.scf" is
\* <<"case", "scf">>, ".scf" is <<"", "scf">>, "OUTCAR" is <<"OUTCAR">>.
\* os.path.splitext(name)[1]: the part after the last dot, unless only dots
\* precede it; <<>> stands for the empty extension.
Ext(name) ==
    IF Len(name) >= 2 /\ \E i \in 1..(Len(name) - 1) : name[i] # ""
    THEN <<name[Len(name)]>>
    ELSE <<>>

ScfExt == <<"scf">>

\* os.listdir(directory): the fixed VASP names that exist, then the other entries
Listdir(d) ==
    (IF d.outcar.kind # "absent" THEN <<OUTCAR>> ELSE <<>>)
        \o (IF d.eigenval.kind # "absent" THEN <<EIGENVAL>> ELSE <<>>)
        \o (IF d.doscar.kind # "absent" THEN <<DOSCAR>> ELSE <<>>)
        \o [k \in DOMAIN d.others |-> d.others[k].name]

\* the lines of the regular file `name` among the other entries
LinesOf(d, name) ==
    LET k == CHOOSE j \in DOMAIN d.others : d.others[j].name = name
    IN  d.others[k].lines

UsingWien2k == <<"using", "WIEN2k">>

FirstIteration == <<":ITE001:", "1.", "ITERATION">>

HasSignature(lines) ==
    \E k \in DOMAIN lines :
        Contains(lines[k], UsingWien2k) \/ Contains(lines[k], FirstIteration)

vasp_test_if_from(d) == ReturnBool(IsFile(d.outcar))

\* faulty variant: only the first file with the extension is looked at
RECURSIVE ScanListingFirstOnly(_, _, _, _)
ScanListingFirstOnly(d, names, k, seen) ==
    IF k > Len(names) THEN [res |-> ReturnBool(FALSE), opened |-> seen]
    ELSE IF Ext(names[k]) = ScfExt
    THEN [res |-> ReturnBool(HasSignature(LinesOf(d, names[k]))),
          opened |-> seen \cup {names[k]}]
    ELSE ScanListingFirstOnly(d, names, k + 1, seen)

\* the loop over os.listdir, at entry k; seen: the files opened so far
RECURSIVE ScanListing(_, _, _, _)
ScanListing(d, names, k, seen) ==
    IF k > Len(names) THEN [res |-> ReturnBool(FALSE), opened |-> seen]
    ELSE IF Ext(names[k]) = ScfExt
    THEN IF HasSignature(LinesOf(d, names[k]))
         THEN [res |-> ReturnBool(TRUE), opened |-> seen \cup {names[k]}]
         ELSE ScanListing(d, names, k + 1, seen \cup {names[k]})
    ELSE ScanListing(d, names, k + 1, seen)

ThisDirectory == <<".">>

wien2k_test_if_from(d) ==
    IF ~d.present THEN [res |-> Raise("OSError"), opened |-> {ThisDirectory}]
    ELSE ScanListing(d, Listdir(d), 1, {ThisDirectory})

VaspTestIfFrom ==
    /\ op' = "VaspParser.test_if_from"
    /\ res' = vasp_test_if_from(dir)
    /\ opened' = {}
    /\ UNCHANGED <<dir, atoms>>

Wien2kTestIfFrom ==
    /\ op' = "Wien2kParser.test_if_from"
    /\ res' = wien2k_test_if_from(dir).res
    /\ opened' = wien2k_test_if_from(dir).opened
    /\ UNCHANGED <<dir, atoms>>

ScfAlphabet ==
    { <<":LABEL3:", "using", "WIEN2k", "on", "host">>,
      <<":ITE001:", "1.", "ITERATION">>,
      <<":ITE002:", "2.", "ITERATION">> }

ScfTexts == SeqsUpTo(ScfAlphabet, MaxScfLines)

ScfNames == { <<"a", "scf">>, <<"b", "scf">> }

\* names whose extension is not ".scf"; their text holds a signature line
OtherNames == { <<"", "scf">>, <<"a", "scf2">> }

Entry(name, lines) == [name |-> name, lines |-> lines]

Entries ==
    {Entry(n, t) : n \in ScfNames, t \in ScfTexts}
        \cup {Entry(n, <<<<":ITE001:", "1.", "ITERATION">>>>) : n \in OtherNames}

DistinctNames(f) == \A i \in DOMAIN f : \A j \in DOMAIN f : i # j => f[i].name # f[j].name

InitDetect ==
    /\ \/ \E o \in {NoFile, SubDir, TextFile(<<>>)} :
          \E n \in 0..MaxFiles : \E f \in [1..n -> Entries] :
              DistinctNames(f) /\ dir = Directory(o, NoFile, NoFile, f)
       \/ dir = MissingDirectory
    /\ Fresh

NextDetect == VaspTestIfFrom \/ Wien2kTestIfFrom

SpecDetect == InitDetect /\ [][NextDetect]_vars

(***************************************************************************)
(* Wien2kParser: the capability table and the unsupported capabilities     *)
(***************************************************************************)
MaxBase == 3

\* base_results[key] = value on a table kept as a list of <<key, value>>
\* items with distinct keys
\* faulty variant: the item added without looking for the key
DictAppend(table, key, value) == Append(table, <<key, value>>)

DictSet(table, key, value) ==
    IF \E i \in DOMAIN table : table[i][1] = key
    THEN [i \in DOMAIN table |-> IF table[i][1] = key THEN <<key, value>> ELSE table[i]]
    ELSE Append(table, <<key, value>>)

Wien2kEntries ==
    << <<"Optical conductivity xx (Re $\\sigma_{xx}$)", "get_optical_conductivity_xx">>,
       <<"Optical conductivity zz (Re $\\sigma_{zz}$)", "get_optical_conductivity_zz">>,
       <<"Absorption xx ($\\alpha_{xx}$)", "get_absorp_xx">>,
       <<"Absorption zz ($\\alpha_{zz}$)", "get_absorp_zz">>,
       <<"eloss$_{xx}$", "get_eloss_xx">>,
       <<"eloss$_{zz}$", "get_eloss_zz">>,
       <<"Re $\\varepsilon_{xx}$", "get_re_eps_xx">>,
       <<"Im $\\varepsilon_{xx}$", "get_im_eps_xx">>,
       <<"Re $\\varepsilon_{zz}$", "get_re_eps_zz">>,
       <<"Im $\\varepsilon_{zz}$", "get_im_eps_zz">> >>

RECURSIVE SetAll(_, _, _)
SetAll(table, items, k) ==
    IF k > Len(items) THEN table
    ELSE SetAll(DictSet(table, items[k][1], items[k][2]), items, k + 1)

wien2k_get_result_functions(base_results) == SetAll(base_results, Wien2kEntries, 1)

\* DFTParser.get_result_functions: items of the base capability set, and one
\* whose name Wien2kParser assigns as well
BaseItems ==
    { <<"Total Energy", "get_total_energy">>,
      <<"Band Gap Energy", "get_band_gap">>,
      <<"Pressure", "get_pressure">>,
      <<"eloss$_{xx}$", "get_eloss">> }

BaseTables ==
    {t \in SeqsUpTo(BaseItems, MaxBase) :
        \A i \in DOMAIN t : \A j \in DOMAIN t : i # j => t[i][1] # t[j][1]}

Wien2kGetResultFunctions ==
    /\ \E base \in BaseTables :
          res' = [kind |-> "table", base |-> base,
                  table |-> wien2k_get_result_functions(base)]
    /\ op' = "Wien2kParser.get_result_functions"
    /\ opened' = {}
    /\ UNCHANGED <<dir, atoms>>

wien2k_uses_SOC(d) == ReturnNone

wien2k_is_relaxed(d) == ReturnNone

wien2k_get_U_settings(d) == ReturnNone

wien2k_get_vdW_settings(d) == ReturnNone

wien2k_get_pressure(d) == ReturnNone

\* faulty variant: the entry left to the extractor written for VASP
get_stresses_of_vasp(d) == get_stresses(d)

wien2k_get_stresses(d) == ReturnNone

wien2k_get_dos(d) == ReturnNone

Wien2kUsesSOC ==
    /\ op' = "Wien2kParser.uses_SOC"
    /\ res' = wien2k_uses_SOC(dir)
    /\ opened' = {}
    /\ UNCHANGED <<dir, atoms>>

Wien2kIsRelaxed ==
    /\ op' = "Wien2kParser.is_relaxed"
    /\ res' = wien2k_is_relaxed(dir)
    /\ opened' = {}
    /\ UNCHANGED <<dir, atoms>>

Wien2kGetUSettings ==
    /\ op' = "Wien2kParser.get_U_settings"
    /\ res' = wien2k_get_U_settings(dir)
    /\ opened' = {}
    /\ UNCHANGED <<dir, atoms>>

Wien2kGetVdWSettings ==
    /\ op' = "Wien2kParser.get_vdW_settings"
    /\ res' = wien2k_get_vdW_settings(dir)
    /\ opened' = {}
    /\ UNCHANGED <<dir, atoms>>

Wien2kGetPressure ==
    /\ op' = "Wien2kParser.get_pressure"
    /\ res' = wien2k_get_pressure(dir)
    /\ opened' = {}
    /\ UNCHANGED <<dir, atoms>>

Wien2kGetStresses ==
    /\ op' = "Wien2kParser.get_stresses"
    /\ res' = wien2k_get_stresses(dir)
    /\ opened' = {}
    /\ UNCHANGED <<dir, atoms>>

Wien2kGetDos ==
    /\ op' = "Wien2kParser.get_dos"
    /\ res' = wien2k_get_dos(dir)
    /\ opened' = {}
    /\ UNCHANGED <<dir, atoms>>

SampleScf == Entry(<<"a", "scf">>, <<<<":ITE001:", "1.", "ITERATION">>>>)

\* directories of any content: missing, empty, with a Wien2k .scf file, with an
\* OUTCAR of any text
InitWien2k ==
    /\ \/ \E o \in {TextFile(t) : t \in SeqsUpTo(OutcarAlphabet, MaxLines - 2)}
                    \cup {NoFile, SubDir} :
          \E f \in {<<>>, <<SampleScf>>} :
              dir = Directory(o, NoFile, NoFile, f)
       \/ dir = MissingDirectory
    /\ Fresh

NextWien2k ==
    \/ Wien2kGetResultFunctions
    \/ Wien2kUsesSOC
    \/ Wien2kIsRelaxed
    \/ Wien2kGetUSettings
    \/ Wien2kGetVdWSettings
    \/ Wien2kGetPressure
    \/ Wien2kGetStresses
    \/ Wien2kGetDos

SpecWien2k == InitWien2k /\ [][NextWien2k]_vars

(***************************************************************************)
(* VaspParser.get_U_settings                                               *)
(***************************************************************************)
MaxSpecies == 2

TitelLine(sp) == <<"TITEL", "=", "PAW_PBE", sp, "06Sep2000">>

LdauTypeLine(t) == <<"type", "is", "set", "to", "LDAUTYPE", "=", t>>

LdauLine(key, vals) == <<"for", "each", "species", key, "=">> \o vals

\* "LDAU" in open(path).read(): some word of the text is one of the words of
\* these OUTCARs that hold the text "LDAU"
UsesLdau(lines) ==
    \E k \in DOMAIN lines : \E j \in DOMAIN lines[k] :
        lines[k][j] \in {"LDAU", "LDAUTYPE", "LDAUL", "LDAUU", "LDAUJ"}

\* the dict {}
EmptyDict == <<>>

\* d[k] = v on a dict
SetItem(d, k, v) == [x \in DOMAIN d \cup {k} |-> IF x = k THEN v ELSE d[x]]

\* locals of get_U_settings while no exception is raised
ULocals(a, u) == [raised |-> FALSE, atoms |-> a, U_param |-> u]

URaised(e) == [raised |-> TRUE, exc |-> e]

\* int(seq[i]) and float(seq[i]); the numerals of the model are integers
Number(seq, i) ==
    IF ~PyIndexOK(seq, i) THEN URaised("IndexError")
    ELSE IF ~IsNumeral(PyIndex(seq, i)) THEN URaised("ValueError")
    ELSE [raised |-> FALSE, val |-> Float(PyIndex(seq, i))]

\* the body of the first loop for one line: both tests are made on every line
TitelStep(line, st) ==
    LET a == IF ~Contains(line, <<"TITEL">>) THEN st
             ELSE IF ~PyIndexOK(line, 3) THEN URaised("IndexError")
             ELSE ULocals(Append(st.atoms, Word(line, 3)), st.U_param)
    IN  IF a.raised \/ ~Contains(line, <<"LDAUTYPE">>) THEN a
        ELSE LET t == Number(line, -1)
             IN  IF t.raised THEN t
                 ELSE ULocals(a.atoms, SetItem(a.U_param, "Type", t.val))

\* for line in fp, from the line at position k
RECURSIVE TitelPass(_, _, _)
TitelPass(lines, k, st) ==
    IF st.raised \/ k > Len(lines) THEN st
    ELSE TitelPass(lines, k + 1, TitelStep(lines[k], st))

\* atoms.reverse()
Reverse(seq) == [i \in DOMAIN seq |-> seq[Len(seq) + 1 - i]]

\* for atom, i in zip(atoms, range(len(atoms))), from index i, on a line that
\* holds the marker of `key`: the right-hand side is evaluated before the
\* dictionary is looked up
RECURSIVE AtomLoop(_, _, _, _)
AtomLoop(line, key, i, st) ==
    IF st.raised \/ i >= Len(st.atoms) THEN st
    ELSE LET atom == st.atoms[i + 1]
             v == Number(line, -1 - i)
             values == st.U_param.Values
         IN  IF v.raised THEN v
             ELSE IF key = "L"
             THEN AtomLoop(line, key, i + 1,
                      ULocals(st.atoms,
                          SetItem(st.U_param, "Values",
                              SetItem(values, atom, [L |-> v.val]))))
             ELSE IF atom \notin DOMAIN values THEN URaised("KeyError")
             ELSE AtomLoop(line, key, i + 1,
                      ULocals(st.atoms,
                          SetItem(st.U_param, "Values",
                              SetItem(values, atom, SetItem(values[atom], key, v.val)))))

LdauMarker == [L |-> "LDAUL", U |-> "LDAUU", J |-> "LDAUJ"]

\* one of the three later loops, from the line at position k
RECURSIVE ValuePass(_, _, _, _)
ValuePass(lines, key, k, st) ==
    IF st.raised \/ k > Len(lines) THEN st
    ELSE IF Contains(lines[k], <<LdauMarker[key]>>)
    THEN ValuePass(lines, key, k + 1, AtomLoop(lines[k], key, 0, st))
    ELSE ValuePass(lines, key, k + 1, st)

\* faulty variant: the next loop goes on from where the last one stopped
NoRewind(pos) == pos

\* fp.seek(0): the position of the next line read, whatever it was
Rewind(pos) == 1

UValue(u) == [kind |-> "Value", U_param |-> u]

get_U_settings(d) ==
    IF ~IsFile(d.outcar) THEN Raise("IOError")
    ELSE IF ~UsesLdau(d.outcar.lines) THEN ReturnNone
    ELSE LET lines == d.outcar.lines
             eof == Len(lines) + 1
             p1 == TitelPass(lines, 1, ULocals(<<>>, EmptyDict))
             s1 == IF p1.raised THEN p1
                   ELSE ULocals(Reverse(p1.atoms), SetItem(p1.U_param, "Values", EmptyDict))
             p2 == ValuePass(lines, "L", Rewind(eof), s1)
             p3 == ValuePass(lines, "U", Rewind(eof), p2)
             p4 == ValuePass(lines, "J", Rewind(eof), p3)
         IN  IF p4.raised THEN Raise(p4.exc) ELSE UValue(p4.U_param)

GetUSettings ==
    /\ op' = "get_U_settings"
    /\ res' = get_U_settings(dir)
    /\ opened' = {OUTCAR}
    /\ UNCHANGED <<dir, atoms>>

(***************************************************************************)
(* Directories for get_U_settings: the TITEL and LDAU lines of OUTCAR vary. *)
(***************************************************************************)
SpeciesNames == {"Fe", "O", "Ni"}

\* sequences of distinct species
SpeciesLists ==
    {s \in SeqsUpTo(SpeciesNames, MaxSpecies) :
        \A i \in DOMAIN s : \A j \in DOMAIN s : i # j => s[i] # s[j]}

\* the values tried on the LDAUL, LDAUU and LDAUJ lines
LdauValues == [L |-> {"2", "-1"}, U |-> {"4", "0"}, J |-> {"1", "0"}]

TitelLines(s) == [k \in DOMAIN s |-> TitelLine(s[k])]

\* the order of a VASP OUTCAR: the potentials first, the LDA+U block later
LdauOutcar(s, l, u, j) ==
    TitelLines(s) \o <<LdauTypeLine("2"), LdauLine("LDAUL", l), LdauLine("LDAUU", u),
                       LdauLine("LDAUJ", j)>>

\* the same lines with the LDA+U block first and in the opposite order
LdauOutcarBlockFirst(s, l, u, j) ==
    <<LdauLine("LDAUJ", j), LdauLine("LDAUU", u), LdauLine("LDAUL", l)>> \o TitelLines(s)

\* lines for OUTCARs that are incomplete or repeat a line
LdauAlphabet ==
    {TitelLine("Fe"), TitelLine("O"), <<"TITEL", "=">>, NoiseLine, LdauTypeLine("2"),
     LdauLine("LDAUL", <<"2">>), LdauLine("LDAUU", <<"4">>)}

InitUSettings ==
    /\ \/ \E s \in SpeciesLists :
          \E l \in [DOMAIN s -> LdauValues.L] : \E u \in [DOMAIN s -> LdauValues.U] :
          \E j \in [DOMAIN s -> LdauValues.J] :
              \/ dir = Directory(TextFile(LdauOutcar(s, l, u, j)), NoFile, NoFile, <<>>)
              \/ dir = Directory(TextFile(LdauOutcarBlockFirst(s, l, u, j)), NoFile, NoFile, <<>>)
       \/ \E t \in SeqsUpTo(LdauAlphabet, MaxLines) :
              dir = Directory(TextFile(t), NoFile, NoFile, <<>>)
       \/ dir \in {Directory(NoFile, NoFile, NoFile, <<>>),
                   Directory(SubDir, NoFile, NoFile, <<>>), MissingDirectory}
    /\ Fresh

NextUSettings == GetUSettings

SpecUSettings == InitUSettings /\ [][NextUSettings]_vars

(***************************************************************************)
(* Wien2kParser.get_total_energy, get_band_gap and _extract_file_data      *)
(***************************************************************************)
\* the loop over os.listdir, at entry k: every name with the extension
\* assigns file_path, which no statement before the loop binds
RECURSIVE FilePath(_, _, _, _)
FilePath(names, ext, k, file_path) ==
    IF k > Len(names) THEN file_path
    ELSE IF Ext(names[k]) = ext
    THEN FilePath(names, ext, k + 1, [bound |-> TRUE, name |-> names[k]])
    ELSE FilePath(names, ext, k + 1, file_path)

EneLine(v) == <<":ENE", ":", "TOTAL", "ENERGY", "IN", "Ry", "=", v>>

GapLine(v) == <<":GAP", ":", v, "eV">>

\* [x for x in parser.parse(lines) if key in x]: one match per line that
\* opens with the marker, holding the value and the unit at the given words
Matches(lines, marker, value_at, unit_at) ==
    LET hits == SelectSeq(lines, LAMBDA l : Len(l) >= 1 /\ l[1] = marker)
    IN  [k \in DOMAIN hits |->
            [value |-> Float(Word(hits[k], value_at)), units |-> Word(hits[k], unit_at)]]

\* Property(scalars=[Scalar(value=matches[-1][key])], units=matches[-1][key units])
LastMatchProperty(matches) ==
    IF Len(matches) = 0 THEN ReturnNone
    ELSE [kind |-> "Property", scalars |-> <<matches[Len(matches)].value>>,
          units |-> matches[Len(matches)].units]

wien2k_get_total_energy(d) ==
    IF ~d.present THEN [res |-> Raise("OSError"), opened |-> {ThisDirectory}]
    ELSE LET file_path == FilePath(Listdir(d), <<"scf">>, 1, Unbound)
         IN  IF ~file_path.bound
             THEN [res |-> Raise("UnboundLocalError"), opened |-> {ThisDirectory}]
             ELSE [res |-> LastMatchProperty(Matches(LinesOf(d, file_path.name),
                                                     ":ENE", 7, 5)),
                   opened |-> {ThisDirectory, file_path.name}]

wien2k_get_band_gap(d) ==
    IF ~d.present THEN [res |-> Raise("OSError"), opened |-> {ThisDirectory}]
    ELSE LET file_path == FilePath(Listdir(d), <<"scf2">>, 1, Unbound)
         IN  IF ~file_path.bound
             THEN [res |-> Raise("UnboundLocalError"), opened |-> {ThisDirectory}]
             ELSE [res |-> LastMatchProperty(Matches(LinesOf(d, file_path.name),
                                                     ":GAP", 2, 3)),
                   opened |-> {ThisDirectory, file_path.name}]

OpticalExts == {<<"absorp">>, <<"eloss">>, <<"epsilon">>}

\* the rows "energy value" of an optical file, and what the parsers make of
\* them: one match per row that holds two numbers
OpticalMatches(lines) ==
    SelectSeq(lines, LAMBDA l : Len(l) = 2 /\ IsNumeral(l[1]) /\ IsNumeral(l[2]))

\* transpose_list(remove_empty(matches)): a dict of lists
DicOfLsts(matches) ==
    [kind |-> "dict",
     energy |-> [k \in DOMAIN matches |-> Float(matches[k][1])],
     values |-> [k \in DOMAIN matches |-> Float(matches[k][2])]]

wien2k_extract_file_data(d, ext) ==
    IF ~d.present THEN [res |-> Raise("OSError"), opened |-> {ThisDirectory}]
    ELSE LET file_path == FilePath(Listdir(d), ext, 1, Unbound)
         IN  IF ~file_path.bound
             THEN [res |-> Raise("UnboundLocalError"), opened |-> {ThisDirectory}]
             ELSE IF ext \notin OpticalExts
             THEN [res |-> Raise("ValueError"), opened |-> {ThisDirectory}]
             ELSE LET matches == OpticalMatches(LinesOf(d, file_path.name))
                  IN  [res |-> IF Len(matches) = 0 THEN ReturnNone ELSE DicOfLsts(matches),
                       opened |-> {ThisDirectory, file_path.name}]

Wien2kGetTotalEnergy ==
    /\ op' = "Wien2kParser.get_total_energy"
    /\ res' = wien2k_get_total_energy(dir).res
    /\ opened' = wien2k_get_total_energy(dir).opened
    /\ UNCHANGED <<dir, atoms>>

Wien2kGetBandGap ==
    /\ op' = "Wien2kParser.get_band_gap"
    /\ res' = wien2k_get_band_gap(dir).res
    /\ opened' = wien2k_get_band_gap(dir).opened
    /\ UNCHANGED <<dir, atoms>>

\* the name of a call of _extract_file_data with the extension `ext`
ExtractOp(ext) == "Wien2kParser._extract_file_data ." \o ext[1]

\* ext: one of the extensions the callers pass, or one that is not recognised
Wien2kExtractFileData ==
    \E ext \in OpticalExts \cup {<<"scf">>} :
        /\ op' = ExtractOp(ext)
        /\ res' = wien2k_extract_file_data(dir, ext).res
        /\ opened' = wien2k_extract_file_data(dir, ext).opened
        /\ UNCHANGED <<dir, atoms>>

(***************************************************************************)
(* Directories for the Wien2k file extractors: the listing varies.         *)
(***************************************************************************)
Wien2kFiles ==
    {Entry(n, t) : n \in ScfNames,
                   t \in { <<>>, << <<":ITE001:", "1.", "ITERATION">> >>, <<EneLine("-12")>>,
                           <<EneLine("-12"), <<":ITE002:", "2.", "ITERATION">>,
                             EneLine("-13")>> }}
        \cup {Entry(<<"a", "scf2">>, t) :
                   t \in { <<>>, <<GapLine("2")>>, <<GapLine("2"), GapLine("3")>> }}
        \cup {Entry(<<"a">> \o x, t) :
                   x \in OpticalExts,
                   t \in { << <<"#", "Energy", "[eV]">> >>, << <<"1", "5">>, <<"2", "7">> >> }}

InitWien2kFiles ==
    /\ \/ \E n \in 0..MaxFiles : \E f \in [1..n -> Wien2kFiles] :
              DistinctNames(f) /\ dir = Directory(NoFile, NoFile, NoFile, f)
       \/ dir = Directory(TextFile(<<NoiseLine>>), NoFile, NoFile, <<>>)
       \/ dir = MissingDirectory
    /\ Fresh

NextWien2kFiles == Wien2kGetTotalEnergy \/ Wien2kGetBandGap \/ Wien2kExtractFileData

SpecWien2kFiles == InitWien2kFiles /\ [][NextWien2kFiles]_vars

(***************************************************************************)
(* VaspParser.get_output_structure and get_forces, which store self.atoms  *)
(***************************************************************************)
\* one ion of the last ionic step: its position, and its force when the step
\* has one
PositionLine(x) == <<"POSITION", x>>

ForceLine(x, f) == <<"POSITION", x, "TOTAL-FORCE", f>>

\* ase's read_vasp_out(path): the Atoms object of the file, its calculator
\* holding the forces when every ion has one
read_vasp_out(d) ==
    IF ~IsFile(d.outcar) THEN Raise("IOError")
    ELSE LET ions == SelectSeq(d.outcar.lines,
                               LAMBDA l : Len(l) >= 2 /\ l[1] = "POSITION")
         IN  [kind |-> "Atoms",
              positions |-> [k \in DOMAIN ions |-> Float(ions[k][2])],
              results |-> IF \A k \in DOMAIN ions : Len(ions[k]) >= 4
                          THEN [forces |-> [k \in DOMAIN ions |-> Float(ions[k][4])]]
                          ELSE EmptyDict]

\* self_atoms: self.atoms before the call; the call binds it anew before it
\* returns it
get_output_structure(d, self_atoms) ==
    LET read == read_vasp_out(d)
    IN  IF read.kind = "raise" THEN [res |-> read, atoms |-> self_atoms]
        ELSE [res |-> read, atoms |-> read]

ForcesProperty(a) ==
    IF "forces" \notin DOMAIN a.results THEN Raise("KeyError")
    ELSE [kind |-> "Property", vectors |-> a.results.forces,
          conditions |-> [name |-> "positions", vectors |-> a.positions]]

\* faulty variant: the Atoms object stored by an earlier call is used
get_forces_stored_atoms(d, self_atoms) ==
    IF self_atoms = NoAtoms THEN [res |-> Raise("AttributeError"), atoms |-> self_atoms]
    ELSE [res |-> ForcesProperty(self_atoms), atoms |-> self_atoms]

get_forces(d, self_atoms) ==
    LET read == read_vasp_out(d)
    IN  IF read.kind = "raise" THEN [res |-> read, atoms |-> self_atoms]
        ELSE [res |-> ForcesProperty(read), atoms |-> read]

GetOutputStructure ==
    /\ op' = "get_output_structure"
    /\ res' = get_output_structure(dir, atoms).res
    /\ atoms' = get_output_structure(dir, atoms).atoms
    /\ opened' = {OUTCAR}
    /\ UNCHANGED dir

GetForces ==
    /\ op' = "get_forces"
    /\ res' = get_forces(dir, atoms).res
    /\ atoms' = get_forces(dir, atoms).atoms
    /\ opened' = {OUTCAR}
    /\ UNCHANGED dir

(***************************************************************************)
(* A session: any sequence of extractor calls on one parser.               *)
(***************************************************************************)
SessionAlphabet ==
    {StressLine(<<"1", "2", "3", "4", "5", "6">>), PressureLine("11"), IsifLine("0"),
     PositionLine("1"), ForceLine("2", "-4"), TitelLine("Fe"), LdauLine("LDAUL", <<"2">>)}

InitSession ==
    /\ \/ \E t \in SeqsUpTo(SessionAlphabet, MaxLines) : \E d \in {NoFile, SampleDoscar} :
              dir = Directory(TextFile(t), NoFile, d, <<>>)
       \/ \E o \in {NoFile, SubDir} : \E d \in {NoFile, SampleDoscar} :
              dir = Directory(o, NoFile, d, <<>>)
       \/ dir = MissingDirectory
    /\ Fresh

NextSession ==
    \/ GetOutputStructure
    \/ GetForces
    \/ GetPressure
    \/ GetStresses
    \/ GetBandGap
    \/ GetUSettings

SpecSession == InitSession /\ [][NextSession]_vars

(***************************************************************************)
(* Properties of get_pressure and get_stresses (SpecOutcar).               *)
(***************************************************************************)
OutcarReadable == dir.outcar.kind = "file"

Hits(marker) ==
    IF OutcarReadable
    THEN {k \in DOMAIN dir.outcar.lines : Contains(dir.outcar.lines[k], marker)}
    ELSE {}

Largest(S) == CHOOSE k \in S : \A j \in S : j <= k

Smallest(S) == CHOOSE k \in S : \A j \in S : k <= j

PressureSuppressed == Hits(IsifMarker("0")) # {}

StressesSuppressed == Hits(IsifMarker("0")) # {} \/ Hits(IsifMarker("1")) # {}

\* C4: without the ISIF = 0 flag and with one or more "external pressure"
\* lines, get_pressure returns the value (fourth word) of the last such line
\* of the file, in kbar.
C4_PressureFromLastLine ==
    (op = "get_pressure" /\ OutcarReadable /\ ~PressureSuppressed
        /\ Hits(ExternalPressure) # {})
    => /\ res.kind = "Property"
       /\ res.units = "kbar"
       /\ res.scalars =
            <<Float(Word(dir.outcar.lines[Largest(Hits(ExternalPressure))], 3))>>

\* two "external pressure" lines with different values, the last one returned
C4_Witness ==
    /\ op = "get_pressure" /\ OutcarReadable /\ ~PressureSuppressed
    /\ Cardinality(Hits(ExternalPressure)) >= 2
    /\ Word(dir.outcar.lines[Smallest(Hits(ExternalPressure))], 3)
         # Word(dir.outcar.lines[Largest(Hits(ExternalPressure))], 3)
    /\ res.kind = "Property"
    /\ res.scalars = <<Float(Word(dir.outcar.lines[Largest(Hits(ExternalPressure))], 3))>>

Symmetric(m) == \A i \in 1..3 : \A j \in 1..3 : m[i][j] = m[j][i]

\* the matrix [[XX,XY,ZX],[XY,YY,YZ],[ZX,YZ,ZZ]] of a line "in kB XX YY ZZ XY YZ ZX"
MatrixOfLine(line) ==
    LET n(i) == Float(line[i])
    IN  << <<n(3), n(6), n(8)>>, <<n(6), n(4), n(7)>>, <<n(8), n(7), n(5)>> >>

\* C5: without the ISIF = 0 and ISIF = 1 flags and with an "in kB" line (the
\* last one, when the file holds several), get_stresses returns the matrix
\* [[XX,XY,ZX],[XY,YY,YZ],[ZX,YZ,ZZ]] of that line; every matrix that
\* get_stresses returns is symmetric.
C5_StressMatrix ==
    /\ (op = "get_stresses" /\ OutcarReadable /\ ~StressesSuppressed /\ Hits(InKB) # {})
       => /\ res.kind = "Property"
          /\ res.units = "kbar"
          /\ res.matrices = <<MatrixOfLine(dir.outcar.lines[Largest(Hits(InKB))])>>
    /\ (op = "get_stresses" /\ res.kind = "Property") => Symmetric(res.matrices[1])

\* the line "in kB 1 2 3 4 5 6" gives [[1,4,6],[4,2,5],[6,5,3]]
C5_Witness ==
    /\ op = "get_stresses" /\ OutcarReadable /\ ~StressesSuppressed
    /\ Hits(InKB) # {}
    /\ dir.outcar.lines[Largest(Hits(InKB))] = StressLine(<<"1", "2", "3", "4", "5", "6">>)
    /\ res.kind = "Property"
    /\ res.matrices = << << <<1, 4, 6>>, <<4, 2, 5>>, <<6, 5, 3>> >> >>

\* C7: with the ISIF = 0 flag get_pressure returns None, and with the
\* ISIF = 0 or the ISIF = 1 flag get_stresses returns None, whether or not the
\* value lines are in the file.
C7_SuppressedIsNone ==
    /\ (op = "get_pressure" /\ OutcarReadable /\ PressureSuppressed) => res = ReturnNone
    /\ (op = "get_stresses" /\ OutcarReadable /\ StressesSuppressed) => res = ReturnNone

\* ISIF = 1 and an "in kB" line in the same file: get_stresses returns None
C7_Witness ==
    /\ op = "get_stresses" /\ OutcarReadable
    /\ Hits(IsifMarker("1")) # {} /\ Hits(IsifMarker("0")) = {}
    /\ Hits(InKB) # {}
    /\ res = ReturnNone

\* C8: on a readable OUTCAR whose flag does not suppress the property, a
\* missing value line ("external pressure", "in kB") makes the extractor
\* raise; it does not return None.
C8_MissingMarkerRaises ==
    /\ (op = "get_pressure" /\ OutcarReadable /\ ~PressureSuppressed
          /\ Hits(ExternalPressure) = {})
       => (res.kind = "raise" /\ res # ReturnNone)
    /\ (op = "get_stresses" /\ OutcarReadable /\ ~StressesSuppressed /\ Hits(InKB) = {})
       => (res.kind = "raise" /\ res # ReturnNone)

\* the half of C8 that the code meets: get_stresses raises
C8_StressesMissingMarkerRaises ==
    (op = "get_stresses" /\ OutcarReadable /\ ~StressesSuppressed /\ Hits(InKB) = {})
    => res = Raise("UnboundLocalError")

(***************************************************************************)
(* Properties of get_band_gap (SpecBandGap).                               *)
(***************************************************************************)
EigenvalPathTaken == IsFile(dir.outcar) /\ IsFile(dir.eigenval)

DoscarPathTaken == ~EigenvalPathTaken /\ IsFile(dir.doscar)

\* C1: get_band_gap picks its source by the presence of the files alone: with
\* OUTCAR and EIGENVAL both regular files it reads them and never DOSCAR;
\* otherwise, with DOSCAR a regular file, it reads DOSCAR only; otherwise it
\* opens nothing and returns None.
C1_SourceByPresence ==
    op = "get_band_gap" =>
        IF EigenvalPathTaken
        THEN OUTCAR \in opened /\ DOSCAR \notin opened /\ res # ReturnNone
        ELSE IF IsFile(dir.doscar)
        THEN opened = {DOSCAR} /\ res # ReturnNone
        ELSE opened = {} /\ res = ReturnNone

\* all three files present: the gap comes from OUTCAR and EIGENVAL
C1_Witness ==
    /\ op = "get_band_gap"
    /\ IsFile(dir.outcar) /\ IsFile(dir.eigenval) /\ IsFile(dir.doscar)
    /\ opened = {OUTCAR, EIGENVAL}
    /\ res.kind = "Property"

Nelec == NumberOfElectrons(dir.outcar.lines).value

EigenvalCase ==
    /\ op = "get_band_gap"
    /\ EigenvalPathTaken
    /\ NumberOfElectrons(dir.outcar.lines).found

SetMax(S) == CHOOSE x \in S : \A y \in S : y <= x

SetMin(S) == CHOOSE x \in S : \A y \in S : x <= y

\* the band of a row list `block` at Python index i (a negative index counts
\* from the end) for spin channel s
BandAt(block, i, s) == IF i >= 0 THEN block[i + 1][s] ELSE block[Len(block) + i + 1][s]

\* max(0, conduction_min - valence_max) of spin channel s for n = floor(nelec/2)
ChannelGap(blocks, s, n) ==
    LET valence_max == SetMax({BandAt(blocks[k], n - 1, s) : k \in DOMAIN blocks})
        conduction_min == SetMin({BandAt(blocks[k], n, s) : k \in DOMAIN blocks})
    IN  IF conduction_min - valence_max > 0 THEN conduction_min - valence_max ELSE 0

ClaimedGap(blocks, nelec) ==
    SetMin({ChannelGap(blocks, s, nelec \div 2) : s \in DOMAIN blocks[1][1]})

\* every k-point block has a band at index floor(nelec/2)
ConductionBandExists(blocks, nelec) ==
    /\ blocks # <<>>
    /\ \A k \in DOMAIN blocks : nelec \div 2 < Len(blocks[k])

\* C2 as stated: on the eigenvalue path, for every electron count and every
\* set of k-point blocks, a gap is computed and equals the minimum over spin
\* channels of max(0, conduction_min - valence_max) for the bands at indices
\* floor(nelec/2)-1 and floor(nelec/2).
C2_EveryElectronCount ==
    (EigenvalCase /\ dir.eigenval.blocks # <<>>)
    => /\ res.kind = "Property"
       /\ ConductionBandExists(dir.eigenval.blocks, Nelec)
       /\ res.bandgap = ClaimedGap(dir.eigenval.blocks, Nelec)
       /\ res.bandgap >= 0

\* C2 as amended: on the eigenvalue path, for every electron count nelec with
\* floor(nelec/2) < number of bands and every non-empty set of k-point blocks
\* (one or two spin channels), the computed gap equals the minimum over spin
\* channels of max(0, conduction_min - valence_max) for the bands at indices
\* floor(nelec/2)-1 and floor(nelec/2) (index -1, for nelec < 2, being the
\* last band), and is never negative.
C2_GapFormula ==
    (EigenvalCase /\ ConductionBandExists(dir.eigenval.blocks, Nelec))
    => /\ res.kind = "Property"
       /\ res.bandgap = ClaimedGap(dir.eigenval.blocks, Nelec)
       /\ res.bandgap >= 0

\* two spin channels and two k-points: one channel has a gap of 13, in the
\* other conduction_min lies below valence_max, so the gap is 0
C2_Witness ==
    /\ EigenvalCase /\ ConductionBandExists(dir.eigenval.blocks, Nelec)
    /\ Nelec \div 2 >= 1
    /\ Len(dir.eigenval.blocks) = 2
    /\ DOMAIN dir.eigenval.blocks[1][1] = {1, 2}
    /\ ChannelGap(dir.eigenval.blocks, 1, Nelec \div 2) = 13
    /\ \E k \in {1, 2} :
          dir.eigenval.blocks[k][(Nelec \div 2) + 1][2]
            < dir.eigenval.blocks[3 - k][Nelec \div 2][2]
    /\ res.kind = "Property"
    /\ res.bandgap = 0

DosRows == dir.doscar.rows

AboveThreshold(k) == Density(DosRows[k]) > DosThreshold

\* the row at which the scan stops: the first one from the third row on that
\* lies above the Fermi energy with a density above the threshold
TopRows ==
    {k \in 3..Len(DosRows) : DosRows[k][1] > dir.doscar.efermi /\ AboveThreshold(k)}

\* the rows scanned before it that lie below the Fermi energy with a density
\* above the threshold
BotRows ==
    {k \in 3..(Smallest(TopRows) - 1) :
        DosRows[k][1] < dir.doscar.efermi /\ AboveThreshold(k)}

DosTop == DosRows[Smallest(TopRows)][1]

DosBot == DosRows[Largest(BotRows)][1]

DosStep == DosRows[2][1] - DosRows[1][1]

DoscarCase ==
    /\ op = "get_band_gap"
    /\ DoscarPathTaken
    /\ Len(DosRows) >= 2
    /\ TopRows # {}
    /\ BotRows # {}

\* C3: on the density-of-states path, with step the energy of the second row
\* minus that of the first, the gap is 0 when top - bottom < 2 * step and
\* top - bottom otherwise.
C3_GapOrZero ==
    DoscarCase
    => /\ res.kind = "Property"
       /\ res.bandgap = IF DosTop - DosBot < 2 * DosStep THEN 0 ELSE DosTop - DosBot

\* edges one step apart: the gap is 0, not the step
C3_Witness ==
    /\ DoscarCase
    /\ DosTop - DosBot = DosStep
    /\ DosStep = 20
    /\ res.kind = "Property"
    /\ res.bandgap = 0
    /\ res.scalars = <<0>>

\* the rows of the whole table above the Fermi energy with a density above
\* the threshold, and those below it
TableTopRows ==
    {k \in DOMAIN DosRows : DosRows[k][1] > dir.doscar.efermi /\ AboveThreshold(k)}

TableBotRows ==
    {k \in DOMAIN DosRows : DosRows[k][1] < dir.doscar.efermi /\ AboveThreshold(k)}

TableTop == DosRows[Smallest(TableTopRows)][1]

TableBot == Largest({DosRows[k][1] : k \in TableBotRows})

\* C12: on the density-of-states path the valence edge is the highest energy
\* among the rows of the table below the Fermi energy whose density exceeds
\* the threshold, the conduction edge is the first row above the Fermi energy
\* whose density exceeds it, and the gap is taken between these two edges.
C12_EdgesOverWholeTable ==
    (/\ op = "get_band_gap"
     /\ DoscarPathTaken
     /\ Len(DosRows) >= 2
     /\ TableTopRows # {}
     /\ TableBotRows # {})
    => /\ res.kind = "Property"
       /\ res.bandgap = IF TableTop - TableBot < 2 * DosStep THEN 0 ELSE TableTop - TableBot

(***************************************************************************)
(* Properties of the Wien2k backend and of the applicability tests.        *)
(***************************************************************************)
Wien2kUnsupported ==
    {"Wien2kParser.uses_SOC", "Wien2kParser.is_relaxed", "Wien2kParser.get_U_settings",
     "Wien2kParser.get_vdW_settings", "Wien2kParser.get_pressure",
     "Wien2kParser.get_stresses", "Wien2kParser.get_dos"}

\* C6: each of the seven capabilities Wien2kParser declares unsupported
\* returns None for every directory (missing, empty, of any content), never
\* raises and opens nothing.
C6_UnsupportedIsNone ==
    op \in Wien2kUnsupported => (res = ReturnNone /\ opened = {})

\* an OUTCAR from which VaspParser.get_stresses returns a matrix: the Wien2k
\* entry still returns None
C6_Witness ==
    /\ op = "Wien2kParser.get_stresses"
    /\ get_stresses(dir).kind = "Property"
    /\ res = ReturnNone
    /\ opened = {}

\* a regular file with extension ".scf" holds a signature line
ScfSignaturePresent ==
    \E k \in DOMAIN dir.others :
        /\ Ext(dir.others[k].name) = <<"scf">>
        /\ \E j \in DOMAIN dir.others[k].lines :
              \/ Contains(dir.others[k].lines[j], <<"using", "WIEN2k">>)
              \/ Contains(dir.others[k].lines[j], <<":ITE001:", "1.", "ITERATION">>)

Names(table) == {table[i][1] : i \in DOMAIN table}

AddedNames == Names(Wien2kEntries)

\* C10: the Wien2k table holds every name of the base table and every one of
\* the ten optical names exactly once; each optical name maps to its Wien2k
\* extractor, whether or not the base table held the name; every base item
\* whose name is not among the ten is in the table unchanged.
C10_TableMerge ==
    op = "Wien2kParser.get_result_functions" =>
        /\ Cardinality(AddedNames) = 10
        /\ Names(res.table) = Names(res.base) \cup AddedNames
        /\ \A i \in DOMAIN res.table : \A j \in DOMAIN res.table :
              i # j => res.table[i][1] # res.table[j][1]
        /\ \A k \in DOMAIN Wien2kEntries : \E i \in DOMAIN res.table :
              res.table[i] = Wien2kEntries[k]
        /\ \A j \in DOMAIN res.base :
              res.base[j][1] \notin AddedNames
                  => \E i \in DOMAIN res.table : res.table[i] = res.base[j]

\* a base table that holds "eloss$_{xx}$": its item is replaced, nine are added
C10_Witness ==
    /\ op = "Wien2kParser.get_result_functions"
    /\ \E j \in DOMAIN res.base : res.base[j] = <<"eloss$_{xx}$", "get_eloss">>
    /\ \E j \in DOMAIN res.base : res.base[j] = <<"Pressure", "get_pressure">>
    /\ Len(res.table) = Len(res.base) + 9
    /\ \E i \in DOMAIN res.table : res.table[i] = <<"eloss$_{xx}$", "get_eloss_xx">>
    /\ ~\E i \in DOMAIN res.table : res.table[i] = <<"eloss$_{xx}$", "get_eloss">>

(***************************************************************************)
(* Properties of get_U_settings (SpecUSettings).                           *)
(***************************************************************************)
OutcarLines == dir.outcar.lines

LinesWith(word) == {k \in DOMAIN OutcarLines : Contains(OutcarLines[k], <<word>>)}

\* the k-th (1-based) of the lines in a set of line numbers, in file order
RECURSIVE Nth(_, _)
Nth(S, k) == IF k = 1 THEN Smallest(S) ELSE Nth(S \ {Smallest(S)}, k - 1)

NSpecies == Cardinality(LinesWith("TITEL"))

\* a_k: the species the k-th TITEL line names
SpeciesAt(k) == OutcarLines[Nth(LinesWith("TITEL"), k)][4]

\* the line ends in n values
EndsInValues(line, n) ==
    /\ Len(line) >= n
    /\ \A i \in (Len(line) - n + 1)..Len(line) : IsNumeral(line[i])

\* the k-th of the n trailing values of the last line holding the word
Trailing(word, k) ==
    LET line == OutcarLines[Largest(LinesWith(word))]
    IN  Float(line[Len(line) - NSpecies + k])

ULinesComplete ==
    /\ \A k \in LinesWith("TITEL") : Len(OutcarLines[k]) >= 4
    /\ \A i \in 1..NSpecies : \A j \in 1..NSpecies : i # j => SpeciesAt(i) # SpeciesAt(j)
    /\ \A w \in {"LDAUL", "LDAUU", "LDAUJ"} :
          /\ LinesWith(w) # {}
          /\ \A k \in LinesWith(w) : EndsInValues(OutcarLines[k], NSpecies)

\* C13: get_U_settings returns None when OUTCAR holds no "LDAU" text;
\* otherwise, with n TITEL lines naming distinct species a_1..a_n in file
\* order and LDAUL, LDAUU and LDAUJ lines each ending in n values, species a_k
\* gets the k-th of the n trailing values as its L, U and J, wherever in the
\* file the TITEL lines and the three LDAU lines stand.
C13_USettings ==
    (op = "get_U_settings" /\ IsFile(dir.outcar))
    => /\ ~UsesLdau(OutcarLines) => res = ReturnNone
       /\ (UsesLdau(OutcarLines) /\ ULinesComplete)
          => /\ res.kind = "Value"
             /\ DOMAIN res.U_param.Values = {SpeciesAt(k) : k \in 1..NSpecies}
             /\ \A k \in 1..NSpecies :
                   res.U_param.Values[SpeciesAt(k)]
                     = [L |-> Trailing("LDAUL", k), U |-> Trailing("LDAUU", k),
                        J |-> Trailing("LDAUJ", k)]

\* two species, the LDAUL line standing before the TITEL lines, different L
\* and U for the two: the first species gets the first of the two values
C13_Witness ==
    /\ op = "get_U_settings" /\ IsFile(dir.outcar)
    /\ UsesLdau(OutcarLines) /\ ULinesComplete
    /\ NSpecies = 2
    /\ Largest(LinesWith("LDAUL")) < Smallest(LinesWith("TITEL"))
    /\ Trailing("LDAUL", 1) = 2 /\ Trailing("LDAUL", 2) = -1
    /\ Trailing("LDAUU", 1) = 0 /\ Trailing("LDAUU", 2) = 4
    /\ res.kind = "Value"
    /\ res.U_param.Values[SpeciesAt(1)] = [L |-> 2, U |-> 0, J |-> Trailing("LDAUJ", 1)]
    /\ res.U_param.Values[SpeciesAt(2)].L = -1

(***************************************************************************)
(* Properties of the Wien2k file extractors (SpecWien2kFiles).             *)
(***************************************************************************)
\* the extension of the input file of the call made last
RequiredExt ==
    IF op = "Wien2kParser.get_total_energy" THEN <<"scf">>
    ELSE IF op = "Wien2kParser.get_band_gap" THEN <<"scf2">>
    ELSE CHOOSE ext \in OpticalExts : op = ExtractOp(ext)

InputFileAbsent ==
    /\ op \in {"Wien2kParser.get_total_energy", "Wien2kParser.get_band_gap"}
                \cup {ExtractOp(ext) : ext \in OpticalExts}
    /\ dir.present
    /\ \A k \in DOMAIN Listdir(dir) : Ext(Listdir(dir)[k]) # RequiredExt

\* C14: when the directory holds no file with the required extension,
\* get_total_energy (.scf), get_band_gap (.scf2) and _extract_file_data
\* (.absorp, .eloss, .epsilon) return None and do not raise.
C14_AbsentFileIsNone ==
    InputFileAbsent => res = ReturnNone

(***************************************************************************)
(* Properties of a session of extractor calls (SpecSession).               *)
(***************************************************************************)
\* the outcome of the call `o` on a newly constructed parser for directory d
FirstCallOutcome(o, d) ==
    CASE o = "get_output_structure" -> get_output_structure(d, NoAtoms).res
      [] o = "get_forces" -> get_forces(d, NoAtoms).res
      [] o = "get_pressure" -> get_pressure(d)
      [] o = "get_stresses" -> get_stresses(d)
      [] o = "get_band_gap" -> get_band_gap(d).res
      [] o = "get_U_settings" -> get_U_settings(d)

====
